---- MODULE Spec2Model ----
(***************************************************************************)
(* A model of SGTree (src/src/tree/tree.rs): an ordered map kept in a      *)
(* scapegoat tree whose nodes live in an index-addressed arena.            *)
(*                                                                         *)
(* The model follows the default build (no high_assurance, no              *)
(* fast_rebalance, no alt_impl); what the high_assurance and the           *)
(* fast_rebalance builds change has a section each, with operators named   *)
(* _ha and _fast.  Every operation of the tree is a pure                   *)
(* operator from a tree record to a result record; the actions apply the   *)
(* operators to the tree under test.  Arena indices are 0-based as in the  *)
(* code; slot i of the arena is element i+1 of the slot sequence.          *)
(***************************************************************************)
EXTENDS Integers, Sequences, FiniteSets

VARIABLES sgt, ref, aborted

vars == <<sgt, ref, aborted>>

\* Bounds of the model.
MaxKey == 4
MaxVal == 2
MaxRebal == 2
MaxMaxSize == 5
MaxInsKey == 6
MaxInsRebal == 3
MaxBulkKey == 3
MaxRemKey == 5
MaxRemRebal == 2
MaxRemSize == 6
MaxAscKey == 10
MaxFastRebal == 1
MaxFastSize == 5
MaxCachedSize == 5

Keys == 1..MaxKey
Vals == 1..MaxVal
InsKeys == 1..MaxInsKey
BulkKeys == 1..MaxBulkKey
AllKeys == Keys \cup InsKeys \cup BulkKeys

\* Option<usize>::None for an index.
None == -1

-----------------------------------------------------------------------------
\* Node and arena (arena.rs and node.rs are not among the sources: modelled
\* from the specification, sections 3, 4.1 and 4.2).

VacantSlot == [occ |-> FALSE, key |-> 0, val |-> 0, left |-> None, right |-> None]

NodeNew(k, v) == [occ |-> TRUE, key |-> k, val |-> v, left |-> None, right |-> None]

ArenaNew == [slots |-> <<>>, free |-> {}]

ArenaLen(a) == Len(a.slots)

InRange(a, idx) == idx >= 0 /\ idx < ArenaLen(a)

Occupied(a, idx) == InRange(a, idx) /\ a.slots[idx + 1].occ

\* Indexed access; the precondition is that the slot is occupied.
ArenaAt(a, idx) == a.slots[idx + 1]

MinOf(S) == CHOOSE x \in S : \A y \in S : x <= y

\* add: the lowest vacant index is reused, else the arena grows by one slot.
ArenaAddIdx(a) == IF a.free = {} THEN ArenaLen(a) ELSE MinOf(a.free)

ArenaAdd(a, k, v) ==
  IF a.free = {}
    THEN [slots |-> Append(a.slots, NodeNew(k, v)), free |-> {}]
    ELSE [slots |-> [a.slots EXCEPT ![MinOf(a.free) + 1] = NodeNew(k, v)],
          free |-> a.free \ {MinOf(a.free)}]

\* remove: vacates the slot and records it in the free list; tolerates a
\* vacant slot.
ArenaRemove(a, idx) ==
  IF Occupied(a, idx)
    THEN [slots |-> [a.slots EXCEPT ![idx + 1] = VacantSlot],
          free |-> a.free \cup {idx}]
    ELSE a

ArenaSetLeft(a, idx, l) == [a EXCEPT !.slots[idx + 1].left = l]

ArenaSetRight(a, idx, r) == [a EXCEPT !.slots[idx + 1].right = r]

ArenaSetKeyVal(a, idx, k, v) ==
  [a EXCEPT !.slots[idx + 1].key = k, !.slots[idx + 1].val = v]

OccupiedIdxs(a) == {i \in 0..(ArenaLen(a) - 1) : a.slots[i + 1].occ}

\* NodeGetHelper: target index, parent index, is_right_child.
NodeGetHelper(n, p, r) == [node_idx |-> n, parent_idx |-> p, is_right_child |-> r]

\* NodeRebuildHelper: a range of the sorted index vector and its midpoint.
NodeRebuildHelper(low, high) ==
  [low_idx |-> low, mid_idx |-> (low + high) \div 2, high_idx |-> high]

-----------------------------------------------------------------------------
\* The tree.

ALPHA_NUM == 2
ALPHA_DENOM == 3

SGTreeNew ==
  [arena |-> ArenaNew, root_idx |-> None, max_idx |-> 0, min_idx |-> 0,
   curr_size |-> 0, alpha_num |-> ALPHA_NUM, alpha_denom |-> ALPHA_DENOM,
   max_size |-> 0, rebal_cnt |-> 0]

NodeAt(t, idx) == ArenaAt(t.arena, idx)

len(t) == t.curr_size

is_empty(t) == t.root_idx = None

\* A result of an operation: the tree afterwards, the returned option
\* (some, key, val) and whether the operation panicked.
NoRet == [some |-> FALSE, key |-> 0, val |-> 0]

SomeRet(k, v) == [some |-> TRUE, key |-> k, val |-> v]

\* Option<V>: a value without a key.
ValRet(v) == [some |-> TRUE, key |-> 0, val |-> v]

Res(t, r) == [t |-> t, ret |-> r, panic |-> FALSE]

Panic(t) == [t |-> t, ret |-> NoRet, panic |-> TRUE]

\* Iterative search: the target index, its parent and the side it hangs on.
RECURSIVE GetWalk(_, _, _, _, _)
GetWalk(t, key, curr_idx, opt_parent_idx, is_right_child) ==
  LET node == NodeAt(t, curr_idx) IN
  IF key < node.key
    THEN IF node.left # None
           THEN GetWalk(t, key, node.left, curr_idx, FALSE)
           ELSE NodeGetHelper(None, None, FALSE)
    ELSE IF key = node.key
      THEN NodeGetHelper(curr_idx, opt_parent_idx, is_right_child)
      ELSE IF node.right # None
             THEN GetWalk(t, key, node.right, curr_idx, TRUE)
             ELSE NodeGetHelper(None, None, FALSE)

priv_get(t, key) ==
  IF t.root_idx # None
    THEN GetWalk(t, key, t.root_idx, None, FALSE)
    ELSE NodeGetHelper(None, None, FALSE)

get_key_value(t, key) ==
  LET ngh == priv_get(t, key) IN
  IF ngh.node_idx # None
    THEN SomeRet(NodeAt(t, ngh.node_idx).key, NodeAt(t, ngh.node_idx).val)
    ELSE NoRet

get(t, key) ==
  LET r == get_key_value(t, key) IN
  IF r.some THEN ValRet(r.val) ELSE NoRet

contains_key(t, key) == get(t, key).some

\* floor(log_{denom/num}(val)): the largest d with (denom/num)^d <= val,
\* and 0 for val = 0 (the cast of -inf to usize saturates at 0).
RECURSIVE LogFloor(_, _, _, _, _, _)
LogFloor(num, denom, val, d, pn, pd) ==
  IF pd * denom <= val * pn * num
    THEN LogFloor(num, denom, val, d + 1, pn * num, pd * denom)
    ELSE d

\* Variant that allows one level more.
alpha_balance_depth_Loose(t, val) ==
  LogFloor(t.alpha_num, t.alpha_denom, val, 0, 1, 1) + 1

alpha_balance_depth(t, val) == LogFloor(t.alpha_num, t.alpha_denom, val, 0, 1, 1)

\* Iterative subtree size computation.
RECURSIVE get_subtree_size(_, _)
get_subtree_size(t, idx) ==
  LET node == NodeAt(t, idx) IN
  1 + (IF node.left # None THEN get_subtree_size(t, node.left) ELSE 0)
    + (IF node.right # None THEN get_subtree_size(t, node.right) ELSE 0)

get_subtree_size_differential(t, parent_idx, child_idx, child_subtree_size) ==
  LET parent == NodeAt(t, parent_idx)
      is_right_child == parent.right # None /\ parent.right = child_idx
      other == IF is_right_child THEN parent.left ELSE parent.right
      other_child_subtree_size ==
        IF other # None THEN get_subtree_size(t, other) ELSE 0
  IN child_subtree_size + other_child_subtree_size + 1

\* Traverse upward along the path to the first unbalanced parent
\* (Galperin and Rivest, 1993).  path[i] of the code is path[i + 1] here.
RECURSIVE ScapegoatWalk(_, _, _, _, _)
ScapegoatWalk(t, path, node_subtree_size, parent_path_idx, parent_subtree_size) ==
  IF parent_path_idx > 0
     /\ t.alpha_denom * node_subtree_size <= t.alpha_num * parent_subtree_size
    THEN ScapegoatWalk(t, path, parent_subtree_size, parent_path_idx - 1,
           get_subtree_size_differential(t, path[parent_path_idx],
             path[parent_path_idx + 1], parent_subtree_size))
    ELSE path[parent_path_idx + 1]

\* find_scapegoat with the slip of never walking up: the parent of the new
\* leaf is returned.
find_scapegoat_Parent(t, path) ==
  IF Len(path) <= 1 THEN None ELSE path[Len(path)]

find_scapegoat(t, path) ==
  IF Len(path) <= 1
    THEN None
    ELSE ScapegoatWalk(t, path, 1, Len(path) - 1,
                       get_subtree_size(t, path[Len(path)]))

\* The indices of a subtree, in the order the worklist of the code visits them.
RECURSIVE FlattenWalk(_, _, _)
FlattenWalk(t, pairs, worklist) ==
  IF worklist = <<>>
    THEN pairs
    ELSE LET node == NodeAt(t, worklist[Len(worklist)])
             rest == SubSeq(worklist, 1, Len(worklist) - 1)
             ls == IF node.left # None THEN <<node.left>> ELSE <<>>
             rs == IF node.right # None THEN <<node.right>> ELSE <<>>
         IN FlattenWalk(t, pairs \o ls \o rs, rest \o ls \o rs)

\* Sort a sequence of arena indices by the key of the node each addresses.
RECURSIVE SortedInsert(_, _, _)
SortedInsert(t, sorted, idx) ==
  IF sorted = <<>>
    THEN <<idx>>
    ELSE IF NodeAt(t, idx).key < NodeAt(t, Head(sorted)).key
      THEN <<idx>> \o sorted
      ELSE <<Head(sorted)>> \o SortedInsert(t, Tail(sorted), idx)

RECURSIVE SortByKey(_, _)
SortByKey(t, idxs) ==
  IF idxs = <<>>
    THEN <<>>
    ELSE SortedInsert(t, SortByKey(t, Tail(idxs)), Head(idxs))

\* flatten_subtree_to_sorted_idxs with the sort left out.
flatten_Unsorted(t, idx) == FlattenWalk(t, <<idx>>, <<idx>>)

flatten_subtree_to_sorted_idxs(t, idx) ==
  SortByKey(t, FlattenWalk(t, <<idx>>, <<idx>>))

SeqContains(s, x) == \E i \in 1..Len(s) : s[i] = x

\* Iteratively re-assign all children: each worklist entry is a sorted index
\* and the range it is the midpoint of.
RECURSIVE RebalanceLoop(_, _, _)
RebalanceLoop(arena, sorted_arena_idxs, subtree_worklist) ==
  IF subtree_worklist = <<>>
    THEN arena
    ELSE LET top == subtree_worklist[Len(subtree_worklist)]
             rest == SubSeq(subtree_worklist, 1, Len(subtree_worklist) - 1)
             sorted_idx == top[1]
             parent_nrh == top[2]
             parent_idx == sorted_arena_idxs[sorted_idx + 1]
             has_left == parent_nrh.low_idx < parent_nrh.mid_idx
             has_right == parent_nrh.mid_idx < parent_nrh.high_idx
             left_nrh == NodeRebuildHelper(parent_nrh.low_idx, parent_nrh.mid_idx - 1)
             right_nrh == NodeRebuildHelper(parent_nrh.mid_idx + 1, parent_nrh.high_idx)
             a1 == ArenaSetRight(ArenaSetLeft(arena, parent_idx, None), parent_idx, None)
             a2 == IF has_left
                     THEN ArenaSetLeft(a1, parent_idx,
                                       sorted_arena_idxs[left_nrh.mid_idx + 1])
                     ELSE a1
             a3 == IF has_right
                     THEN ArenaSetRight(a2, parent_idx,
                                        sorted_arena_idxs[right_nrh.mid_idx + 1])
                     ELSE a2
             wl == rest
                   \o (IF has_left THEN <<(<<left_nrh.mid_idx, left_nrh>>)>> ELSE <<>>)
                   \o (IF has_right THEN <<(<<right_nrh.mid_idx, right_nrh>>)>> ELSE <<>>)
         IN RebalanceLoop(a3, sorted_arena_idxs, wl)

\* Variant that re-links the subtree's nodes but leaves the parent of the old
\* subtree root pointing at the old subtree root.
rebalance_subtree_from_sorted_idxs_KeepsParentLink(t, old_subtree_root_idx, sorted_arena_idxs) ==
  IF Len(sorted_arena_idxs) <= 1
    THEN t
    ELSE LET sorted_last_idx == Len(sorted_arena_idxs) - 1
             subtree_root_sorted_idx == sorted_last_idx \div 2
             subtree_root_arena_idx == sorted_arena_idxs[subtree_root_sorted_idx + 1]
             t1 == IF t.root_idx # None /\ SeqContains(sorted_arena_idxs, t.root_idx)
                     THEN [t EXCEPT !.root_idx = subtree_root_arena_idx]
                     ELSE t
         IN [t1 EXCEPT !.arena =
               RebalanceLoop(@, sorted_arena_idxs,
                 <<(<<subtree_root_sorted_idx,
                      NodeRebuildHelper(0, sorted_last_idx)>>)>>)]

\* Height re-balance of a subtree from its sorted index vector; the tree root
\* or the parent of the old subtree root is pointed at the new subtree root.
rebalance_subtree_from_sorted_idxs(t, old_subtree_root_idx, sorted_arena_idxs) ==
  IF Len(sorted_arena_idxs) <= 1
    THEN t
    ELSE LET sorted_last_idx == Len(sorted_arena_idxs) - 1
             subtree_root_sorted_idx == sorted_last_idx \div 2
             subtree_root_arena_idx == sorted_arena_idxs[subtree_root_sorted_idx + 1]
             ngh == priv_get(t, NodeAt(t, old_subtree_root_idx).key)
             t1 == IF t.root_idx = None
                     THEN t
                     ELSE IF SeqContains(sorted_arena_idxs, t.root_idx)
                       THEN [t EXCEPT !.root_idx = subtree_root_arena_idx]
                       ELSE IF ngh.parent_idx = None
                         THEN t
                         ELSE IF ngh.is_right_child
                           THEN [t EXCEPT !.arena = ArenaSetRight(@, ngh.parent_idx,
                                                      subtree_root_arena_idx)]
                           ELSE [t EXCEPT !.arena = ArenaSetLeft(@, ngh.parent_idx,
                                                      subtree_root_arena_idx)]
         IN [t1 EXCEPT !.arena =
               RebalanceLoop(@, sorted_arena_idxs,
                 <<(<<subtree_root_sorted_idx,
                      NodeRebuildHelper(0, sorted_last_idx)>>)>>)]

\* Iterative in-place rebuild of the subtree rooted at idx.
rebuild(t, idx) ==
  [rebalance_subtree_from_sorted_idxs(t, idx, flatten_subtree_to_sorted_idxs(t, idx))
     EXCEPT !.rebal_cnt = @ + 1]

\* Minimum / maximum update without recursion: walk leftmost / rightmost.
RECURSIVE LeftMost(_, _)
LeftMost(t, curr_idx) ==
  IF NodeAt(t, curr_idx).left # None
    THEN LeftMost(t, NodeAt(t, curr_idx).left)
    ELSE curr_idx

RECURSIVE RightMost(_, _)
RightMost(t, curr_idx) ==
  IF NodeAt(t, curr_idx).right # None
    THEN RightMost(t, NodeAt(t, curr_idx).right)
    ELSE curr_idx

\* update_min_idx with the slip of not walking down from the root.
update_min_idx_Root(t) ==
  IF t.root_idx # None
    THEN [t EXCEPT !.min_idx = t.root_idx]
    ELSE [t EXCEPT !.min_idx = 0]

update_min_idx(t) ==
  IF t.root_idx # None
    THEN [t EXCEPT !.min_idx = LeftMost(t, t.root_idx)]
    ELSE [t EXCEPT !.min_idx = 0]

update_max_idx(t) ==
  IF t.root_idx # None
    THEN [t EXCEPT !.max_idx = RightMost(t, t.root_idx)]
    ELSE [t EXCEPT !.max_idx = 0]

\* The traversal of priv_insert: where the walk stops ("lt": new left leaf
\* under curr_idx, "gt": new right leaf, "eq": key found at curr_idx) and the
\* path pushed on the way, the stopping node included.
RECURSIVE InsertWalk(_, _, _, _)
InsertWalk(t, key, curr_idx, path) ==
  LET curr_node == NodeAt(t, curr_idx)
      path1 == Append(path, curr_idx)
  IN IF key < curr_node.key
       THEN IF curr_node.left # None
              THEN InsertWalk(t, key, curr_node.left, path1)
              ELSE [ord |-> "lt", curr_idx |-> curr_idx, path |-> path1]
       ELSE IF key = curr_node.key
         THEN [ord |-> "eq", curr_idx |-> curr_idx, path |-> path1]
         ELSE IF curr_node.right # None
                THEN InsertWalk(t, key, curr_node.right, path1)
                ELSE [ord |-> "gt", curr_idx |-> curr_idx, path |-> path1]

InsRes(t, path, r) == [t |-> t, path |-> path, ret |-> r, panic |-> FALSE]

InsPanic(t) == [t |-> t, path |-> <<>>, ret |-> NoRet, panic |-> TRUE]

\* InsertEqual with the slip of replacing the key only: the value stays.
InsertEqual_KeyOnly(t, w, key, val) ==
  InsRes([t EXCEPT !.arena = ArenaSetKeyVal(@, w.curr_idx, key,
                                             NodeAt(t, w.curr_idx).val)],
         w.path, ValRet(NodeAt(t, w.curr_idx).val))

\* InsertEqual with the slip of counting the replaced node as a new one.
InsertEqual_Counts(t, w, key, val) ==
  InsRes([t EXCEPT !.arena = ArenaSetKeyVal(@, w.curr_idx, key, val),
                   !.curr_size = @ + 1,
                   !.max_size = @ + 1],
         w.path, ValRet(NodeAt(t, w.curr_idx).val))

\* Ordering::Equal: key and value are replaced in place, the old value is
\* returned; no parent is linked, the size is unchanged.
InsertEqual(t, w, key, val) ==
  InsRes([t EXCEPT !.arena = ArenaSetKeyVal(@, w.curr_idx, key, val)],
         w.path, ValRet(NodeAt(t, w.curr_idx).val))

\* Ordering::Less at a node without a left child: new-min check against the
\* cached min node, left insert, link to parent.
InsertLeft(t, w, key, val) ==
  IF ~Occupied(t.arena, t.min_idx)
    THEN InsPanic(t)
    ELSE InsRes(
           [t EXCEPT
              !.arena = ArenaSetLeft(ArenaAdd(@, key, val), w.curr_idx,
                                     ArenaAddIdx(t.arena)),
              !.min_idx = IF key < NodeAt(t, t.min_idx).key
                            THEN ArenaAddIdx(t.arena) ELSE @,
              !.curr_size = @ + 1,
              !.max_size = @ + 1],
           w.path, NoRet)

\* InsertRight with the slip of linking the new node as the left child.
InsertRight_LinksLeft(t, w, key, val) ==
  IF ~Occupied(t.arena, t.max_idx)
    THEN InsPanic(t)
    ELSE InsRes(
           [t EXCEPT
              !.arena = ArenaSetLeft(ArenaAdd(@, key, val), w.curr_idx,
                                     ArenaAddIdx(t.arena)),
              !.max_idx = IF key > NodeAt(t, t.max_idx).key
                            THEN ArenaAddIdx(t.arena) ELSE @,
              !.curr_size = @ + 1,
              !.max_size = @ + 1],
           w.path, NoRet)

\* Ordering::Greater at a node without a right child: the same with max.
InsertRight(t, w, key, val) ==
  IF ~Occupied(t.arena, t.max_idx)
    THEN InsPanic(t)
    ELSE InsRes(
           [t EXCEPT
              !.arena = ArenaSetRight(ArenaAdd(@, key, val), w.curr_idx,
                                      ArenaAddIdx(t.arena)),
              !.max_idx = IF key > NodeAt(t, t.max_idx).key
                            THEN ArenaAddIdx(t.arena) ELSE @,
              !.curr_size = @ + 1,
              !.max_size = @ + 1],
           w.path, NoRet)

\* InsertEmpty with the slip of not counting the new node in max_size.
InsertEmpty_KeepsMaxSize(t, key, val) ==
  InsRes([t EXCEPT !.arena = ArenaAdd(@, key, val),
                   !.root_idx = ArenaAddIdx(t.arena),
                   !.max_idx = ArenaAddIdx(t.arena),
                   !.min_idx = ArenaAddIdx(t.arena),
                   !.curr_size = @ + 1],
         <<>>, NoRet)

\* Empty tree: the new node is root, min and max.
InsertEmpty(t, key, val) ==
  InsRes([t EXCEPT !.arena = ArenaAdd(@, key, val),
                   !.root_idx = ArenaAddIdx(t.arena),
                   !.max_idx = ArenaAddIdx(t.arena),
                   !.min_idx = ArenaAddIdx(t.arena),
                   !.curr_size = @ + 1,
                   !.max_size = @ + 1],
         <<>>, NoRet)

\* Sorted insert of a node into the tree (inner).
priv_insert(t, key, val) ==
  IF t.root_idx # None
    THEN LET w == InsertWalk(t, key, t.root_idx, <<>>)
         IN IF w.ord = "eq"
              THEN InsertEqual(t, w, key, val)
              ELSE IF w.ord = "lt"
                THEN InsertLeft(t, w, key, val)
                ELSE InsertRight(t, w, key, val)
    ELSE InsertEmpty(t, key, val)

\* Variant that links the new node and never rebuilds.
priv_balancing_insert_SkipsRebuild(t, key, val) ==
  LET r == priv_insert(t, key, val)
  IN IF r.panic THEN Panic(t) ELSE Res(r.t, r.ret)

\* Sorted insert of a node into the tree (outer): re-balances if necessary.
priv_balancing_insert(t, key, val) ==
  LET r == priv_insert(t, key, val)
      scapegoat_idx == find_scapegoat(r.t, r.path)
  IN IF r.panic
       THEN Panic(t)
       ELSE IF Len(r.path) > alpha_balance_depth(r.t, r.t.max_size)
               /\ scapegoat_idx # None
         THEN Res(rebuild(r.t, scapegoat_idx), r.ret)
         ELSE Res(r.t, r.ret)

insert(t, key, val) == priv_balancing_insert(t, key, val)

\* The walk of the two-child removal: the minimum node of the right subtree
\* and its parent.
RECURSIVE MinWalk(_, _, _)
MinWalk(t, min_idx, min_parent_idx) ==
  IF NodeAt(t, min_idx).left # None
    THEN MinWalk(t, NodeAt(t, min_idx).left, min_idx)
    ELSE [min_idx |-> min_idx, min_parent_idx |-> min_parent_idx]

\* TwoChildRelink with the slip of not re-linking the removed node's left
\* child to the minimum node.
TwoChildRelink_DropsLeft(t, node_idx) ==
  LET node_to_remove == NodeAt(t, node_idx)
      m == MinWalk(t, node_to_remove.right, node_idx)
      unlink_new_child == NodeAt(t, m.min_idx).right
      node_to_remove_right_idx ==
        IF m.min_parent_idx = node_idx
          THEN unlink_new_child
          ELSE node_to_remove.right
      a1 == IF m.min_parent_idx = node_idx
              THEN t.arena
              ELSE ArenaSetLeft(t.arena, m.min_parent_idx, unlink_new_child)
  IN ArenaSetRight(a1, m.min_idx, node_to_remove_right_idx)

\* TwoChildRelink with the slip of not unlinking the minimum node from its
\* parent.
TwoChildRelink_KeepsMinLinked(t, node_idx) ==
  LET node_to_remove == NodeAt(t, node_idx)
      m == MinWalk(t, node_to_remove.right, node_idx)
      unlink_new_child == NodeAt(t, m.min_idx).right
      node_to_remove_right_idx ==
        IF m.min_parent_idx = node_idx
          THEN unlink_new_child
          ELSE node_to_remove.right
  IN ArenaSetLeft(ArenaSetRight(t.arena, m.min_idx, node_to_remove_right_idx),
                  m.min_idx, node_to_remove.left)

\* TwoChildRelink with the slip of giving the minimum node the removed
\* node's right child even when the minimum node is that child.
TwoChildRelink_KeepsRight(t, node_idx) ==
  LET node_to_remove == NodeAt(t, node_idx)
      m == MinWalk(t, node_to_remove.right, node_idx)
      unlink_new_child == NodeAt(t, m.min_idx).right
      a1 == IF m.min_parent_idx = node_idx
              THEN t.arena
              ELSE ArenaSetLeft(t.arena, m.min_parent_idx, unlink_new_child)
  IN ArenaSetLeft(ArenaSetRight(a1, m.min_idx, node_to_remove.right),
                  m.min_idx, node_to_remove.left)

\* Zero-copy removal of a node with two children: unlink the minimum node of
\* the right subtree from its parent and re-link it to the removed node's
\* children.  The arena afterwards.
TwoChildRelink(t, node_idx) ==
  LET node_to_remove == NodeAt(t, node_idx)
      m == MinWalk(t, node_to_remove.right, node_idx)
      unlink_new_child == NodeAt(t, m.min_idx).right
      node_to_remove_right_idx ==
        IF m.min_parent_idx = node_idx
          THEN unlink_new_child
          ELSE node_to_remove.right
      a1 == IF m.min_parent_idx = node_idx
              THEN t.arena
              ELSE ArenaSetLeft(t.arena, m.min_parent_idx, unlink_new_child)
  IN ArenaSetLeft(ArenaSetRight(a1, m.min_idx, node_to_remove_right_idx),
                  m.min_idx, node_to_remove.left)

\* The replacement of the removed node: none, its only child, or the
\* minimum node of its right subtree.
RemoveNewChild(t, node_idx) ==
  LET node_to_remove == NodeAt(t, node_idx) IN
  IF node_to_remove.left = None /\ node_to_remove.right = None
    THEN None
    ELSE IF node_to_remove.right = None
      THEN node_to_remove.left
      ELSE IF node_to_remove.left = None
        THEN node_to_remove.right
        ELSE MinWalk(t, node_to_remove.right, node_idx).min_idx

\* RemoveRelink with the slip of never moving the root.
RemoveRelink_KeepsRoot(t, ngh, new_child) ==
  IF ngh.parent_idx # None
    THEN IF ngh.is_right_child
           THEN [t EXCEPT !.arena = ArenaSetRight(@, ngh.parent_idx, new_child)]
           ELSE [t EXCEPT !.arena = ArenaSetLeft(@, ngh.parent_idx, new_child)]
    ELSE t

\* Update parent or root: the new child takes the removed node's place.
RemoveRelink(t, ngh, new_child) ==
  IF ngh.parent_idx # None
    THEN IF ngh.is_right_child
           THEN [t EXCEPT !.arena = ArenaSetRight(@, ngh.parent_idx, new_child)]
           ELSE [t EXCEPT !.arena = ArenaSetLeft(@, ngh.parent_idx, new_child)]
    ELSE [t EXCEPT !.root_idx = new_child]

\* Update min/max after the removal of node_idx.
RemoveUpdateMinMax(t, node_idx) ==
  IF node_idx = t.min_idx
    THEN update_min_idx(t)
    ELSE IF node_idx = t.max_idx
      THEN update_max_idx(t)
      ELSE t

\* Perform removal: vacate the slot, one element less.
RemoveSlot(t, node_idx) ==
  [t EXCEPT !.arena = ArenaRemove(@, node_idx), !.curr_size = @ - 1]

\* Remove a node from the tree, re-linking remaining nodes as necessary.
priv_remove(t, ngh) ==
  IF ngh.node_idx # None
    THEN LET node_idx == ngh.node_idx
             node_to_remove == NodeAt(t, node_idx)
             new_child == RemoveNewChild(t, node_idx)
             t1 == IF node_to_remove.left # None /\ node_to_remove.right # None
                     THEN [t EXCEPT !.arena = TwoChildRelink(t, node_idx)]
                     ELSE t
             t2 == RemoveSlot(RemoveRelink(t1, ngh, new_child), node_idx)
         IN Res(RemoveUpdateMinMax(t2, node_idx),
                SomeRet(node_to_remove.key, node_to_remove.val))
    ELSE Res(t, NoRet)

\* Remove a node by key.
priv_remove_by_key(t, key) == priv_remove(t, priv_get(t, key))

\* Remove a node by index: a wrapper for by-key removal.  Indexing a vacant
\* slot panics, and so does the unwrap of a failed by-key retrieval.
priv_remove_by_idx(t, idx) ==
  IF InRange(t.arena, idx)
    THEN IF ~Occupied(t.arena, idx)
           THEN Panic(t)
           ELSE LET ngh == priv_get(t, NodeAt(t, idx).key)
                IN IF ngh.node_idx # idx
                     THEN Panic(t)
                     ELSE priv_remove(t, ngh)
    ELSE Res(t, NoRet)

\* remove_entry with the slip of testing the deletion threshold whether or
\* not a node was removed.
remove_entry_AlwaysTests(t, key) ==
  LET r == priv_remove_by_key(t, key) IN
  IF r.t.max_size > 2 * r.t.curr_size /\ r.t.root_idx # None
    THEN Res([rebuild(r.t, r.t.root_idx) EXCEPT !.max_size = r.t.curr_size], r.ret)
    ELSE r

\* Variant whose deletion threshold is inclusive (max_size >= 2 * size).
remove_entry_Inclusive(t, key) ==
  LET r == priv_remove_by_key(t, key) IN
  IF r.ret.some
    THEN IF r.t.max_size >= 2 * r.t.curr_size /\ r.t.root_idx # None
           THEN Res([rebuild(r.t, r.t.root_idx) EXCEPT !.max_size = r.t.curr_size],
                    r.ret)
           ELSE r
    ELSE Res(r.t, NoRet)

remove_entry(t, key) ==
  LET r == priv_remove_by_key(t, key) IN
  IF r.ret.some
    THEN IF r.t.max_size > 2 * r.t.curr_size /\ r.t.root_idx # None
           THEN Res([rebuild(r.t, r.t.root_idx) EXCEPT !.max_size = r.t.curr_size],
                    r.ret)
           ELSE r
    ELSE Res(r.t, NoRet)

remove(t, key) ==
  LET r == remove_entry(t, key) IN
  IF r.ret.some THEN Res(r.t, ValRet(r.ret.val)) ELSE r

first_key_value(t) ==
  IF len(t) > 0
    THEN IF ~Occupied(t.arena, t.min_idx)
           THEN Panic(t)
           ELSE Res(t, SomeRet(NodeAt(t, t.min_idx).key, NodeAt(t, t.min_idx).val))
    ELSE Res(t, NoRet)

last_key_value(t) ==
  IF len(t) > 0
    THEN IF ~Occupied(t.arena, t.max_idx)
           THEN Panic(t)
           ELSE Res(t, SomeRet(NodeAt(t, t.max_idx).key, NodeAt(t, t.max_idx).val))
    ELSE Res(t, NoRet)

\* pop_first with the slip of taking the cached max index.
pop_first_Max(t) == priv_remove_by_idx(t, t.max_idx)

pop_first(t) == priv_remove_by_idx(t, t.min_idx)

pop_last(t) == priv_remove_by_idx(t, t.max_idx)

\* Ok iff 0.5 <= alpha_num / alpha_denom < 1.0 (alpha_denom > 0 here).
\* The f32 test (0.5..1.0).contains(&(alpha_num / alpha_denom)) on integer
\* arguments: a zero denominator divides to an infinity or a NaN, which the
\* range does not contain; a negative one turns the comparisons around.
AlphaInRange(alpha_num, alpha_denom) ==
  \/ alpha_denom > 0 /\ alpha_denom <= 2 * alpha_num /\ alpha_num < alpha_denom
  \/ alpha_denom < 0 /\ alpha_denom >= 2 * alpha_num /\ alpha_num > alpha_denom

\* set_rebal_param with the slip of a range open at 0.5.
set_rebal_param_Open(t, alpha_num, alpha_denom) ==
  IF AlphaInRange(alpha_num, alpha_denom) /\ alpha_denom # 2 * alpha_num
    THEN [t |-> [t EXCEPT !.alpha_num = alpha_num, !.alpha_denom = alpha_denom],
          ok |-> TRUE]
    ELSE [t |-> t, ok |-> FALSE]

set_rebal_param(t, alpha_num, alpha_denom) ==
  IF AlphaInRange(alpha_num, alpha_denom)
    THEN [t |-> [t EXCEPT !.alpha_num = alpha_num, !.alpha_denom = alpha_denom],
          ok |-> TRUE]
    ELSE [t |-> t, ok |-> FALSE]

rebal_param(t) == <<t.alpha_num, t.alpha_denom>>

\* clear with the slip of dropping the root only.
clear_RootOnly(t) == IF ~is_empty(t) THEN [t EXCEPT !.root_idx = None] ELSE t

\* Clears the tree; the rebalance counter survives.
clear(t) ==
  IF ~is_empty(t)
    THEN [SGTreeNew EXCEPT !.rebal_cnt = t.rebal_cnt]
    ELSE t

\* Arena sort (modelled from the specification, section 4.1): the occupied
\* slots are permuted so that storage order is in-order traversal order, the
\* i-th entry of the metadata landing in slot i; child indices follow the
\* permutation.  The arena afterwards and the new index of the root.
ArenaSort(a, root_idx, sort_metadata) ==
  LET n == Len(sort_metadata)
      NewIdx(old) == (CHOOSE j \in 1..n : sort_metadata[j].node_idx = old) - 1
      Remap(x) == IF x = None THEN None ELSE NewIdx(x)
      Moved(j) == LET nd == ArenaAt(a, sort_metadata[j].node_idx)
                  IN [nd EXCEPT !.left = Remap(@), !.right = Remap(@)]
  IN [arena |-> [slots |-> [i \in 1..ArenaLen(a) |->
                              IF i <= n THEN Moved(i) ELSE VacantSlot],
                 free |-> n..(ArenaLen(a) - 1)],
      root |-> NewIdx(root_idx)]

\* The occupied indices of the arena, ascending.
RECURSIVE OccupiedSeq(_, _)
OccupiedSeq(a, from) ==
  IF from >= ArenaLen(a)
    THEN <<>>
    ELSE (IF a.slots[from + 1].occ THEN <<from>> ELSE <<>>) \o OccupiedSeq(a, from + 1)

\* Sort the arena such that logically contiguous nodes are in-order (by key).
sort_arena(t) ==
  IF t.root_idx # None
    THEN LET by_key == SortByKey(t, OccupiedSeq(t.arena, 0))
             sort_metadata == [j \in 1..Len(by_key) |->
                                 priv_get(t, NodeAt(t, by_key[j]).key)]
             sorted == ArenaSort(t.arena, t.root_idx, sort_metadata)
         IN update_min_idx(update_max_idx(
              [t EXCEPT !.arena = sorted.arena, !.root_idx = sorted.root]))
    ELSE t

\* Iteration (iter.rs is not among the sources: modelled from the
\* specification, section 4.9): an explicit stack seeded with the left spine
\* of the root; next pops the top and pushes the left spine of its right
\* child.  The arena indices in the order they are yielded.
RECURSIVE LeftSpine(_, _, _)
LeftSpine(t, idx, stack) ==
  IF idx = None THEN stack ELSE LeftSpine(t, NodeAt(t, idx).left, Append(stack, idx))

RECURSIVE IterNext(_, _, _)
IterNext(t, stack, out) ==
  IF stack = <<>>
    THEN out
    ELSE LET top == stack[Len(stack)]
             rest == SubSeq(stack, 1, Len(stack) - 1)
         IN IterNext(t, LeftSpine(t, NodeAt(t, top).right, rest), Append(out, top))

iter(t) == IterNext(t, LeftSpine(t, t.root_idx, <<>>), <<>>)

IterKeys(t) == [i \in 1..Len(iter(t)) |-> NodeAt(t, iter(t)[i]).key]

\* The removal pass of priv_drain_filter: remove by index, insert what came
\* out into the drained tree.
RECURSIVE DrainLoop(_, _, _)
DrainLoop(t, drained_sgt, remove_idxs) ==
  IF remove_idxs = <<>>
    THEN [t |-> t, out |-> drained_sgt, panic |-> FALSE]
    ELSE LET r == priv_remove_by_idx(t, Head(remove_idxs))
             d == IF r.ret.some
                    THEN insert(drained_sgt, r.ret.key, r.ret.val)
                    ELSE Res(drained_sgt, NoRet)
         IN IF r.panic \/ d.panic
              THEN [t |-> r.t, out |-> d.t, panic |-> TRUE]
              ELSE DrainLoop(r.t, d.t, Tail(remove_idxs))

\* drain_filter with the slip of collecting the indexes before the arena is
\* sorted.
priv_drain_filter_StaleIdxs(t, pred) ==
  LET t1 == sort_arena(t)
      keys == IterKeys(t1)
      key_idxs == [i \in 1..Len(keys) |-> priv_get(t, keys[i]).node_idx]
      Hit(i) == keys[i] \in pred
      RECURSIVE Pick(_)
      Pick(i) == IF i > Len(keys)
                   THEN <<>>
                   ELSE (IF Hit(i) THEN <<key_idxs[i]>> ELSE <<>>) \o Pick(i + 1)
  IN DrainLoop(t1, SGTreeNew, Pick(1))

\* drain_filter with a predicate over keys, given as the set of keys it holds of.
priv_drain_filter(t, pred) ==
  LET t1 == sort_arena(t)
      keys == IterKeys(t1)
      key_idxs == [i \in 1..Len(keys) |-> priv_get(t1, keys[i]).node_idx]
      Hit(i) == keys[i] \in pred
      RECURSIVE Pick(_)
      Pick(i) == IF i > Len(keys)
                   THEN <<>>
                   ELSE (IF Hit(i) THEN <<key_idxs[i]>> ELSE <<>>) \o Pick(i + 1)
  IN DrainLoop(t1, SGTreeNew, Pick(1))

\* Retains only the elements the predicate holds of.
retain(t, f) == priv_drain_filter(t, AllKeys \ f)

\* split_off with the slip of leaving the key itself behind.
split_off_Strict(t, key) == priv_drain_filter(t, {k \in AllKeys : k > key})

\* Splits the collection in two at the key; returns everything from it on.
split_off(t, key) == priv_drain_filter(t, {k \in AllKeys : k >= key})

\* The loop of append: rip the elements out of other's arena by index.
\* The append loop with the slip of keeping self's value on an equal key.
RECURSIVE AppendLoop_KeepsOld(_, _, _, _)
AppendLoop_KeepsOld(t, other, arena_idx, arena_len) ==
  IF arena_idx >= arena_len
    THEN [t |-> t, other |-> other, panic |-> FALSE]
    ELSE IF Occupied(other.arena, arena_idx)
      THEN LET node == NodeAt(other, arena_idx)
               r == IF contains_key(t, node.key)
                      THEN Res(t, NoRet)
                      ELSE insert(t, node.key, node.val)
               o1 == [other EXCEPT !.arena = ArenaRemove(@, arena_idx)]
           IN IF r.panic
                THEN [t |-> r.t, other |-> o1, panic |-> TRUE]
                ELSE AppendLoop_KeepsOld(r.t, o1, arena_idx + 1, arena_len)
      ELSE AppendLoop_KeepsOld(t, other, arena_idx + 1, arena_len)

RECURSIVE AppendLoop(_, _, _, _)
AppendLoop(t, other, arena_idx, arena_len) ==
  IF arena_idx >= arena_len
    THEN [t |-> t, other |-> other, panic |-> FALSE]
    ELSE IF Occupied(other.arena, arena_idx)
      THEN LET node == NodeAt(other, arena_idx)
               r == insert(t, node.key, node.val)
               o1 == [other EXCEPT !.arena = ArenaRemove(@, arena_idx)]
           IN IF r.panic
                THEN [t |-> r.t, other |-> o1, panic |-> TRUE]
                ELSE AppendLoop(r.t, o1, arena_idx + 1, arena_len)
      ELSE AppendLoop(t, other, arena_idx + 1, arena_len)

\* Moves all elements from other into self, leaving other empty.
append(t, other) ==
  IF is_empty(other)
    THEN [t |-> t, other |-> other, panic |-> FALSE]
    ELSE IF is_empty(t)
      THEN [t |-> other, other |-> t, panic |-> FALSE]
      ELSE LET r == AppendLoop(t, other, 0, ArenaLen(other.arena))
           IN [r EXCEPT !.other = clear(@)]

-----------------------------------------------------------------------------
\* The build with the high_assurance feature: insert and append return a
\* Result, err standing for Err(SGErr::StackCapacityExceeded).

\* The compile-time capacity N of the arena.
Capacity == 3

capacity(t) == Capacity

\* insert with the slip of a test that still admits a full tree.
insert_ha_OffByOne(t, key, val) ==
  IF capacity(t) >= len(t)
    THEN LET r == priv_balancing_insert(t, key, val)
         IN [t |-> r.t, ret |-> r.ret, panic |-> r.panic, err |-> FALSE]
    ELSE [t |-> t, ret |-> NoRet, panic |-> FALSE, err |-> TRUE]

insert_ha(t, key, val) ==
  IF capacity(t) > len(t)
    THEN LET r == priv_balancing_insert(t, key, val)
         IN [t |-> r.t, ret |-> r.ret, panic |-> r.panic, err |-> FALSE]
    ELSE [t |-> t, ret |-> NoRet, panic |-> FALSE, err |-> TRUE]

RECURSIVE AppendLoopHA(_, _, _, _)
AppendLoopHA(t, other, arena_idx, arena_len) ==
  IF arena_idx >= arena_len
    THEN [t |-> t, other |-> other, panic |-> FALSE, err |-> FALSE]
    ELSE IF Occupied(other.arena, arena_idx)
      THEN LET node == NodeAt(other, arena_idx)
               r == insert_ha(t, node.key, node.val)
               o1 == [other EXCEPT !.arena = ArenaRemove(@, arena_idx)]
           IN IF r.panic
                THEN [t |-> r.t, other |-> o1, panic |-> TRUE, err |-> FALSE]
                ELSE AppendLoopHA(r.t, o1, arena_idx + 1, arena_len)
      ELSE AppendLoopHA(t, other, arena_idx + 1, arena_len)

\* append with the slip of testing only what other holds.
append_ha_OtherOnly(t, other) ==
  IF is_empty(other)
    THEN [t |-> t, other |-> other, panic |-> FALSE, err |-> FALSE]
    ELSE IF is_empty(t)
      THEN [t |-> other, other |-> t, panic |-> FALSE, err |-> FALSE]
      ELSE IF len(other) <= capacity(t)
        THEN LET r == AppendLoopHA(t, other, 0, ArenaLen(other.arena))
             IN [r EXCEPT !.other = clear(@)]
        ELSE [t |-> t, other |-> other, panic |-> FALSE, err |-> TRUE]

\* Attempts to move all elements from other into self, leaving other empty.
append_ha(t, other) ==
  IF is_empty(other)
    THEN [t |-> t, other |-> other, panic |-> FALSE, err |-> FALSE]
    ELSE IF is_empty(t)
      THEN [t |-> other, other |-> t, panic |-> FALSE, err |-> FALSE]
      ELSE IF (len(t) + len(other)) <= capacity(t)
        THEN LET r == AppendLoopHA(t, other, 0, ArenaLen(other.arena))
             IN [r EXCEPT !.other = clear(@)]
        ELSE [t |-> t, other |-> other, panic |-> FALSE, err |-> TRUE]

-----------------------------------------------------------------------------
\* The fast_rebalance build: every node caches the size of its subtree.  The
\* cache of the node in slot i is subtree_size[i], a field added to the tree
\* record; vacant slots have no entry.

SGTreeNew_fast ==
  [f \in DOMAIN SGTreeNew \cup {"subtree_size"} |->
     IF f = "subtree_size" THEN [i \in {} |-> 0] ELSE SGTreeNew[f]]

\* Write the cached size of the node in slot idx.
SetSubtreeSize(t, idx, n) ==
  [t EXCEPT !.subtree_size =
     [i \in DOMAIN @ \cup {idx} |-> IF i = idx THEN n ELSE @[i]]]

\* for parent_idx in path { subtree_size += d }
RECURSIVE AddToSizes(_, _, _)
AddToSizes(t, path, d) ==
  IF path = <<>>
    THEN t
    ELSE AddToSizes(SetSubtreeSize(t, Head(path), t.subtree_size[Head(path)] + d),
                    Tail(path), d)

\* A node is created with a subtree of one: itself.
NewNodeSizes(before, after) ==
  LET added == OccupiedIdxs(after.arena) \ OccupiedIdxs(before.arena)
  IN [after EXCEPT !.subtree_size =
        [i \in DOMAIN @ \cup added |-> IF i \in added THEN 1 ELSE @[i]]]

\* The size of a subtree is read from the cache of its root.
get_subtree_size_fast(t, idx) == t.subtree_size[idx]

get_subtree_size_differential_fast(t, parent_idx, child_idx, child_subtree_size) ==
  get_subtree_size_fast(t, parent_idx)

RECURSIVE ScapegoatWalk_fast(_, _, _, _, _)
ScapegoatWalk_fast(t, path, node_subtree_size, parent_path_idx, parent_subtree_size) ==
  IF parent_path_idx > 0
     /\ t.alpha_denom * node_subtree_size <= t.alpha_num * parent_subtree_size
    THEN ScapegoatWalk_fast(t, path, parent_subtree_size, parent_path_idx - 1,
           get_subtree_size_differential_fast(t, path[parent_path_idx],
             path[parent_path_idx + 1], parent_subtree_size))
    ELSE path[parent_path_idx + 1]

find_scapegoat_fast(t, path) ==
  IF Len(path) <= 1
    THEN None
    ELSE ScapegoatWalk_fast(t, path, 1, Len(path) - 1,
                            get_subtree_size_fast(t, path[Len(path)]))

\* The worklist loop of the rebuild sets the cache of every re-linked node to
\* the length of its range of the sorted index vector.
RECURSIVE RebalanceSizes(_, _, _)
RebalanceSizes(t, sorted_arena_idxs, parent_nrh) ==
  LET parent_idx == sorted_arena_idxs[parent_nrh.mid_idx + 1]
      t1 == SetSubtreeSize(t, parent_idx, parent_nrh.high_idx - parent_nrh.low_idx + 1)
      t2 == IF parent_nrh.low_idx < parent_nrh.mid_idx
              THEN RebalanceSizes(t1, sorted_arena_idxs,
                     NodeRebuildHelper(parent_nrh.low_idx, parent_nrh.mid_idx - 1))
              ELSE t1
  IN IF parent_nrh.mid_idx < parent_nrh.high_idx
       THEN RebalanceSizes(t2, sorted_arena_idxs,
              NodeRebuildHelper(parent_nrh.mid_idx + 1, parent_nrh.high_idx))
       ELSE t2

rebalance_subtree_from_sorted_idxs_fast(t, old_subtree_root_idx, sorted_arena_idxs) ==
  IF Len(sorted_arena_idxs) <= 1
    THEN t
    ELSE RebalanceSizes(
           rebalance_subtree_from_sorted_idxs(t, old_subtree_root_idx, sorted_arena_idxs),
           sorted_arena_idxs, NodeRebuildHelper(0, Len(sorted_arena_idxs) - 1))

rebuild_fast(t, idx) ==
  [rebalance_subtree_from_sorted_idxs_fast(t, idx, flatten_subtree_to_sorted_idxs(t, idx))
     EXCEPT !.rebal_cnt = @ + 1]

\* Sorted insert (outer): the cache of every node of the path grows by one
\* before the potential rebalance.  The path that priv_insert hands back
\* ends with the found node itself when the key was already present.
priv_balancing_insert_fast(t, key, val) ==
  LET r == priv_insert(t, key, val)
      t1 == AddToSizes(NewNodeSizes(t, r.t), r.path, 1)
      scapegoat_idx == find_scapegoat_fast(t1, r.path)
  IN IF r.panic
       THEN Panic(t)
       ELSE IF Len(r.path) > alpha_balance_depth(t1, t1.max_size)
               /\ scapegoat_idx # None
         THEN Res(rebuild_fast(t1, scapegoat_idx), r.ret)
         ELSE Res(t1, r.ret)

insert_fast(t, key, val) == priv_balancing_insert_fast(t, key, val)

\* The path priv_get collects: the nodes visited down to the parent of the
\* found node; cleared when the find fails.
RECURSIVE GetPathWalk(_, _, _, _)
GetPathWalk(t, key, curr_idx, path) ==
  LET node == NodeAt(t, curr_idx) IN
  IF key = node.key
    THEN path
    ELSE LET next == IF key < node.key THEN node.left ELSE node.right
         IN IF next = None
              THEN <<>>
              ELSE GetPathWalk(t, key, next, Append(path, curr_idx))

priv_get_path(t, key) ==
  IF t.root_idx # None THEN GetPathWalk(t, key, t.root_idx, <<>>) ELSE <<>>

\* The caches priv_remove writes while it re-links: in the two-child case
\* the parent of the minimum node, when it is not the removed node, loses
\* one and the minimum node takes the removed node's size less one; then the
\* slot is vacated and every node of the path loses one.
priv_remove_fast(t, path, ngh) ==
  IF ngh.node_idx # None
    THEN LET node_idx == ngh.node_idx
             node_to_remove == NodeAt(t, node_idx)
             r == priv_remove(t, ngh)
             m == MinWalk(t, node_to_remove.right, node_idx)
             min_node_subtree_size == t.subtree_size[node_idx] - 1
             t1 == IF node_to_remove.left # None /\ node_to_remove.right # None
                     THEN SetSubtreeSize(
                            IF m.min_parent_idx = node_idx
                              THEN r.t
                              ELSE SetSubtreeSize(r.t, m.min_parent_idx,
                                     t.subtree_size[m.min_parent_idx] - 1),
                            m.min_idx, min_node_subtree_size)
                     ELSE r.t
             t2 == [t1 EXCEPT !.subtree_size =
                      [i \in DOMAIN @ \ {node_idx} |-> @[i]]]
         IN Res(AddToSizes(t2, path, -1), r.ret)
    ELSE Res(t, NoRet)

priv_remove_by_key_fast(t, key) ==
  priv_remove_fast(t, priv_get_path(t, key), priv_get(t, key))

remove_entry_fast(t, key) ==
  LET r == priv_remove_by_key_fast(t, key) IN
  IF r.ret.some
    THEN IF r.t.max_size > 2 * r.t.curr_size /\ r.t.root_idx # None
           THEN Res([rebuild_fast(r.t, r.t.root_idx) EXCEPT !.max_size = r.t.curr_size],
                    r.ret)
           ELSE r
    ELSE Res(r.t, NoRet)

-----------------------------------------------------------------------------
\* The reference finite map the tree is compared with: key -> value, 0 for an
\* absent key.

Absent == NoRet.val

RefEmpty == [k \in AllKeys |-> Absent]

RefDom(m) == {k \in AllKeys : m[k] # Absent}

RefGet(m, k) == IF m[k] # Absent THEN SomeRet(k, m[k]) ELSE NoRet

RefVal(m, k) == IF m[k] # Absent THEN ValRet(m[k]) ELSE NoRet

MaxOf(S) == CHOOSE x \in S : \A y \in S : x >= y

RefPopFirst(m) == IF RefDom(m) = {} THEN m ELSE [m EXCEPT ![MinOf(RefDom(m))] = Absent]

RefPopLast(m) == IF RefDom(m) = {} THEN m ELSE [m EXCEPT ![MaxOf(RefDom(m))] = Absent]

\* The rebalance parameters set_rebal_param is called with: 2/3, 1/2, and
\* two it rejects (1/3 and 1/1).
RebalParams == {<<2, 3>>, <<1, 2>>, <<1, 3>>, <<1, 1>>}

RefRetain(m, f) == [k \in AllKeys |-> IF k \in f THEN m[k] ELSE Absent]

RefSplitOff(m, key) == [k \in AllKeys |-> IF k < key THEN m[k] ELSE Absent]

RefAppend(m, o) == [k \in AllKeys |-> IF o[k] # Absent THEN o[k] ELSE m[k]]

\* The trees append is given: a new tree after insert(k1), insert(k2) and,
\* with rm, remove(k1), each step skipped for a key of 0; every value is
\* OtherVal.  in[1] = k1, in[2] = k2, in[3] = rm.
OtherVal == MaxVal

OtherInputs ==
  {in \in (BulkKeys \cup {0}) \X (BulkKeys \cup {0}) \X BOOLEAN :
     /\ in[1] = 0 => (in[2] = 0 /\ ~in[3])
     /\ in[1] # 0 => in[1] # in[2]}

OtherTree(in) ==
  LET t1 == IF in[1] # 0 THEN insert(SGTreeNew, in[1], OtherVal).t ELSE SGTreeNew
      t2 == IF in[2] # 0 THEN insert(t1, in[2], OtherVal).t ELSE t1
  IN IF in[3] THEN remove(t2, in[1]).t ELSE t2

OtherRef(in) ==
  [k \in AllKeys |-> IF (k = in[1] /\ ~in[3]) \/ k = in[2] THEN OtherVal ELSE Absent]

Init ==
  /\ sgt = SGTreeNew
  /\ ref = RefEmpty
  /\ aborted = FALSE

\* The step every operation on the tree ends with: r is the operation's
\* result, m the reference map after it.
Finish(r, m, cap, size_cap) ==
  /\ ~aborted
  /\ r.t.rebal_cnt <= cap
  /\ r.t.max_size <= size_cap
  /\ sgt' = r.t
  /\ aborted' = r.panic
  /\ ref' = IF r.panic THEN ref ELSE m

Insert(k, v) == Finish(insert(sgt, k, v), [ref EXCEPT ![k] = v], MaxRebal, MaxMaxSize)

RemoveEntry(k) == Finish(remove_entry(sgt, k), [ref EXCEPT ![k] = Absent], MaxRebal, MaxMaxSize)

Remove(k) == Finish(remove(sgt, k), [ref EXCEPT ![k] = Absent], MaxRebal, MaxMaxSize)

PopFirst == Finish(pop_first(sgt), RefPopFirst(ref), MaxRebal, MaxMaxSize)

PopLast == Finish(pop_last(sgt), RefPopLast(ref), MaxRebal, MaxMaxSize)

Clear == Finish(Res(clear(sgt), NoRet), RefEmpty, MaxRebal, MaxMaxSize)

SetRebalParam(p) == Finish(Res(set_rebal_param(sgt, p[1], p[2]).t, NoRet), ref, MaxRebal, MaxMaxSize)

Retain(f) == Finish(retain(sgt, f), RefRetain(ref, f), MaxRebal, MaxMaxSize)

SplitOff(k) == Finish(split_off(sgt, k), RefSplitOff(ref, k), MaxRebal, MaxMaxSize)

AppendOther(in) == Finish(append(sgt, OtherTree(in)), RefAppend(ref, OtherRef(in)), MaxRebal, MaxMaxSize)

Next ==
  \/ \E k \in Keys, v \in Vals : Insert(k, v)
  \/ \E k \in Keys : RemoveEntry(k)
  \/ \E k \in Keys : Remove(k)
  \/ PopFirst
  \/ PopLast
  \/ Clear
  \/ \E p \in RebalParams : SetRebalParam(p)

Spec == Init /\ [][Next]_vars

\* Every public operation, the bulk ones included, over fewer keys.
NextAll ==
  \/ \E k \in BulkKeys, v \in Vals : Insert(k, v)
  \/ \E k \in BulkKeys : RemoveEntry(k)
  \/ \E k \in BulkKeys : Remove(k)
  \/ PopFirst
  \/ PopLast
  \/ Clear
  \/ \E p \in RebalParams : SetRebalParam(p)
  \/ \E f \in SUBSET BulkKeys : Retain(f)
  \/ \E k \in BulkKeys : SplitOff(k)
  \/ \E in \in OtherInputs : AppendOther(in)

SpecAll == Init /\ [][NextAll]_vars

\* Insertion sequences only, under a rebalance parameter fixed beforehand.
InitIns ==
  /\ \E p \in {<<2, 3>>, <<1, 2>>} : sgt = set_rebal_param(SGTreeNew, p[1], p[2]).t
  /\ ref = RefEmpty
  /\ aborted = FALSE

InsertOnly(k) == Finish(insert(sgt, k, 1), [ref EXCEPT ![k] = 1], MaxInsRebal, MaxInsKey)

NextIns == \E k \in InsKeys : InsertOnly(k)

SpecIns == InitIns /\ [][NextIns]_vars

\* Insertions and removals by key over one more key, under the default
\* rebalance parameter: trees of five nodes, deep enough for a removed node's
\* successor to lie below its right child and have a right child itself.
RemKeys == 1..MaxRemKey

InsertRem(k) ==
  Finish(insert(sgt, k, 1), [ref EXCEPT ![k] = 1], MaxRemRebal, MaxRemSize)

RemoveRem(k) ==
  Finish(remove_entry(sgt, k), [ref EXCEPT ![k] = Absent], MaxRemRebal, MaxRemSize)

NextRem ==
  \/ \E k \in RemKeys : InsertRem(k)
  \/ \E k \in RemKeys : RemoveRem(k)

SpecRem == Init /\ [][NextRem]_vars

\* Strictly ascending insertions into an empty tree under the default
\* alpha = 2/3: each key inserted is larger than every key stored.  An insert
\* rebuilds at most once and adds one to max_size, so no cap is ever reached.
AscKeys == 1..MaxAscKey

InsertAscending(k) ==
  /\ \A j \in AscKeys : contains_key(sgt, j) => j < k
  /\ Finish(insert(sgt, k, 1),
            [j \in DOMAIN ref \cup {k} |-> IF j = k THEN 1 ELSE ref[j]],
            MaxAscKey, MaxAscKey)

NextAsc == \E k \in AscKeys : InsertAscending(k)

SpecAsc == Init /\ [][NextAsc]_vars

\* The fast_rebalance build under insertions and removals by key.
InitFast ==
  /\ sgt = SGTreeNew_fast
  /\ ref = RefEmpty
  /\ aborted = FALSE

\* The caches a slip lets grow are kept within MaxCachedSize.
FinishFast(r, m) ==
  /\ Finish(r, m, MaxFastRebal, MaxFastSize)
  /\ \A i \in DOMAIN r.t.subtree_size : r.t.subtree_size[i] <= MaxCachedSize

InsertFast(k) == FinishFast(insert_fast(sgt, k, 1), [ref EXCEPT ![k] = 1])

RemoveFast(k) == FinishFast(remove_entry_fast(sgt, k), [ref EXCEPT ![k] = Absent])

NextFast ==
  \/ \E k \in RemKeys : InsertFast(k)
  \/ \E k \in RemKeys : RemoveFast(k)

SpecFast == InitFast /\ [][NextFast]_vars

\* The high_assurance build: insert and append refuse what exceeds the
\* capacity, and the reference map then stays as it was.
InsertHA(k, v) ==
  LET r == insert_ha(sgt, k, v)
  IN Finish(r, IF r.err THEN ref ELSE [ref EXCEPT ![k] = v], MaxRebal, MaxMaxSize)

AppendHA(in) ==
  LET r == append_ha(sgt, OtherTree(in))
  IN Finish(r, IF r.err THEN ref ELSE RefAppend(ref, OtherRef(in)), MaxRebal, MaxMaxSize)

NextHA ==
  \/ \E k \in Keys, v \in Vals : InsertHA(k, v)
  \/ \E k \in Keys : RemoveEntry(k)
  \/ PopFirst
  \/ PopLast
  \/ \E in \in OtherInputs : AppendHA(in)

SpecHA == Init /\ [][NextHA]_vars

-----------------------------------------------------------------------------
\* Properties.

StoredKeys(t) == {NodeAt(t, i).key : i \in OccupiedIdxs(t.arena)}

ReachIdxs(t) == {iter(t)[i] : i \in 1..Len(iter(t))}

StrictlyAscending(s) == \A i \in 1..(Len(s) - 1) : s[i] < s[i + 1]

SeqSet(s) == {s[i] : i \in 1..Len(s)}

\* C1: the tree refines a reference finite map: in every state reached by a
\* sequence of calls, get/contains_key of every key answer as the reference
\* map does, and the next insert, remove_entry or remove of any key returns
\* what the reference map returns for it.
C1_RefinesMap ==
  /\ \A k \in Keys :
       /\ get(sgt, k) = RefVal(ref, k)
       /\ get_key_value(sgt, k) = RefGet(ref, k)
       /\ contains_key(sgt, k) = (ref[k] # Absent)
       /\ remove_entry(sgt, k).ret = RefGet(ref, k)
       /\ remove(sgt, k).ret = RefVal(ref, k)
       /\ \A v \in Vals : insert(sgt, k, v).ret = RefVal(ref, k)

\* A state after a rebuild and a removal, holding a value that is not the
\* first one and lacking another key.
C1_Witness ==
  /\ sgt.rebal_cnt > 0
  /\ sgt.arena.free # {}
  /\ sgt.curr_size >= 2
  /\ \E k \in Keys : ref[k] = MaxVal /\ get(sgt, k).some
  /\ \E k \in Keys : ref[k] = Absent /\ ~get(sgt, k).some

\* C2: after any insertion sequence, in-order iteration yields exactly the
\* distinct keys inserted, each once, strictly ascending.
C2_IterSorted ==
  /\ StrictlyAscending(IterKeys(sgt))
  /\ SeqSet(IterKeys(sgt)) = RefDom(ref)
  /\ Len(IterKeys(sgt)) = Cardinality(RefDom(ref))

\* Five or more keys were inserted, a rebuild moved the root away from the
\* first node inserted.
C2_Witness ==
  /\ Len(IterKeys(sgt)) >= 5
  /\ sgt.rebal_cnt >= 1
  /\ sgt.root_idx # 0

\* C3: len() is the number of distinct keys stored, which is the number of
\* occupied arena slots and the number of nodes reachable from the root (and
\* the number of keys of the reference map).
C3_SizeConsistent ==
  /\ len(sgt) = Cardinality(StoredKeys(sgt))
  /\ len(sgt) = Cardinality(OccupiedIdxs(sgt.arena))
  /\ len(sgt) = Len(iter(sgt))
  /\ len(sgt) = Cardinality(ReachIdxs(sgt))
  /\ ReachIdxs(sgt) = OccupiedIdxs(sgt.arena)
  /\ len(sgt) = Cardinality(RefDom(ref))

\* A tree of two or more nodes whose arena has vacant slots below the high
\* water mark, after a rebuild.
C3_Witness ==
  /\ len(sgt) >= 2
  /\ sgt.arena.free # {}
  /\ sgt.rebal_cnt > 0
  /\ sgt.min_idx # 0

\* The number of children of the node holding key, -1 for an absent key.
KidsOf(t, key) ==
  LET ngh == priv_get(t, key) IN
  IF ngh.node_idx = None
    THEN -1
    ELSE (IF NodeAt(t, ngh.node_idx).left # None THEN 1 ELSE 0)
         + (IF NodeAt(t, ngh.node_idx).right # None THEN 1 ELSE 0)

\* C4: from every reachable state, insert(k, v1) followed by insert(k, v2):
\* the second insert leaves len unchanged, returns Some(v1), and get(k) is
\* v2 afterwards.
C4_InsertTwice ==
  \A k \in Keys, v1 \in Vals, v2 \in Vals :
    LET r1 == insert(sgt, k, v1)
        r2 == insert(r1.t, k, v2)
    IN /\ ~r1.panic /\ ~r2.panic
       /\ len(r2.t) = len(r1.t)
       /\ r2.ret = ValRet(v1)
       /\ get(r2.t, k) = ValRet(v2)

\* A key away from the root, in a tree of three or more nodes, whose
\* repeated insert runs into the rebalance test and counts a rebuild.
C4_Witness ==
  \E k \in Keys :
    /\ len(sgt) >= 3
    /\ priv_get(sgt, k).parent_idx # None
    /\ insert(insert(sgt, k, 1).t, k, MaxVal).t.rebal_cnt > sgt.rebal_cnt

\* C5: remove_entry of a present key returns the stored pair, decreases len
\* by one, makes get(k) none and leaves every other key's value as it was.
C5_RemovePresent ==
  \A k \in Keys :
    get(sgt, k).some =>
      LET r == remove_entry(sgt, k) IN
      /\ ~r.panic
      /\ r.ret = SomeRet(k, ref[k])
      /\ len(r.t) = len(sgt) - 1
      /\ ~get(r.t, k).some
      /\ \A k2 \in Keys \ {k} : get(r.t, k2) = get(sgt, k2)

\* A state with a node of two children whose removal is followed by the
\* full rebuild, beside a leaf.
C5_Witness ==
  /\ \E k \in Keys :
       /\ KidsOf(sgt, k) = 2
       /\ remove_entry(sgt, k).t.rebal_cnt = sgt.rebal_cnt + 1
  /\ \E k \in Keys : KidsOf(sgt, k) = 0

\* C6: remove_entry and remove of an absent key return none and leave the
\* whole tree as it was.
C6_RemoveAbsent ==
  \A k \in Keys :
    ~get(sgt, k).some =>
      /\ remove_entry(sgt, k) = Res(sgt, NoRet)
      /\ remove(sgt, k) = Res(sgt, NoRet)

\* An absent key in a non-empty tree that is past the deletion threshold.
C6_Witness ==
  /\ sgt.root_idx # None
  /\ sgt.max_size > 2 * sgt.curr_size
  /\ \E k \in Keys : ~get(sgt, k).some /\ ~remove_entry(sgt, k).ret.some

\* C7: once every key inserted has been removed again, the tree is empty:
\* is_empty, len 0, no first or last entry, no occupied arena slot.
C7_RoundTrip ==
  RefDom(ref) = {} =>
    /\ is_empty(sgt)
    /\ len(sgt) = 0
    /\ first_key_value(sgt) = Res(sgt, NoRet)
    /\ last_key_value(sgt) = Res(sgt, NoRet)
    /\ OccupiedIdxs(sgt.arena) = {}

\* The tree is empty again after three or more keys had been stored at once.
C7_Witness ==
  /\ RefDom(ref) = {}
  /\ ArenaLen(sgt.arena) >= 3
  /\ sgt.arena.free = 0..(ArenaLen(sgt.arena) - 1)
  /\ ~aborted

\* C8: whenever size > 0 the cached min index addresses the occupied node
\* with the smallest key, which is the leftmost node, the cached max index
\* the one with the largest key, the rightmost node, and first_key_value /
\* last_key_value return the minimum / maximum entries.
C8_MinMaxCache ==
  sgt.curr_size > 0 =>
    /\ Occupied(sgt.arena, sgt.min_idx)
    /\ Occupied(sgt.arena, sgt.max_idx)
    /\ sgt.min_idx = LeftMost(sgt, sgt.root_idx)
    /\ sgt.max_idx = RightMost(sgt, sgt.root_idx)
    /\ NodeAt(sgt, sgt.min_idx).key = MinOf(StoredKeys(sgt))
    /\ NodeAt(sgt, sgt.max_idx).key = MaxOf(StoredKeys(sgt))
    /\ first_key_value(sgt) = Res(sgt, RefGet(ref, MinOf(RefDom(ref))))
    /\ last_key_value(sgt) = Res(sgt, RefGet(ref, MaxOf(RefDom(ref))))

\* After a rebuild, the minimum sits in a higher slot than the maximum and
\* neither is the root.
C8_Witness ==
  /\ sgt.curr_size >= 3
  /\ sgt.min_idx > sgt.max_idx
  /\ sgt.root_idx \notin {sgt.min_idx, sgt.max_idx}
  /\ sgt.rebal_cnt > 0

\* C9: on a non-empty tree pop_first (pop_last) returns the entry of the
\* minimum (maximum) key, removes exactly that entry, decreases len by one
\* and leaves every other entry as it was.
C9_PopFirstLast ==
  sgt.curr_size > 0 =>
    LET lo == MinOf(RefDom(ref))
        hi == MaxOf(RefDom(ref))
        pf == pop_first(sgt)
        pl == pop_last(sgt)
    IN /\ ~pf.panic /\ ~pl.panic
       /\ pf.ret = SomeRet(lo, ref[lo])
       /\ pl.ret = SomeRet(hi, ref[hi])
       /\ len(pf.t) = len(sgt) - 1
       /\ len(pl.t) = len(sgt) - 1
       /\ \A k \in Keys : get(pf.t, k) = IF k = lo THEN NoRet ELSE get(sgt, k)
       /\ \A k \in Keys : get(pl.t, k) = IF k = hi THEN NoRet ELSE get(sgt, k)

\* Both the minimum and the maximum node have a child, after a rebuild.
C9_Witness ==
  /\ sgt.curr_size >= 4
  /\ sgt.rebal_cnt > 0
  /\ NodeAt(sgt, sgt.min_idx).right # None
  /\ NodeAt(sgt, sgt.max_idx).left # None

\* The number of edges from idx down to its deepest descendant.
RECURSIVE Height(_, _)
Height(t, idx) ==
  LET node == NodeAt(t, idx)
      hl == IF node.left # None THEN 1 + Height(t, node.left) ELSE 0
      hr == IF node.right # None THEN 1 + Height(t, node.right) ELSE 0
  IN IF hl > hr THEN hl ELSE hr

MaxDepth(t) == IF t.root_idx = None THEN 0 ELSE Height(t, t.root_idx)

\* C10: under a fixed alpha, after any sequence of inserts the depth of every
\* node is at most floor(log_{1/alpha}(max_size)) + 1.
C10_DepthBound ==
  MaxDepth(sgt) <= alpha_balance_depth(sgt, sgt.max_size) + 1

\* After a rebuild, a tree of five or more nodes as deep as the bound allows
\* without a further rebuild.
C10_Witness ==
  /\ sgt.rebal_cnt >= 1
  /\ sgt.curr_size >= 5
  /\ MaxDepth(sgt) = alpha_balance_depth(sgt, sgt.max_size)

\* C11: at every public API boundary, after any sequence of inserts and
\* removals, max_size <= 2 * size + 1.
C11_MaxSizeBound ==
  sgt.max_size <= 2 * sgt.curr_size + 1

\* C12: after any call that returns from remove_entry, found or not, if
\* max_size > 2 * size then either size = 0 or a rebuild just occurred and
\* max_size = size.
C12_DeletionThreshold ==
  \A k \in Keys :
    LET r == remove_entry(sgt, k)
    IN (~r.panic /\ r.t.max_size > 2 * r.t.curr_size) =>
         \/ r.t.curr_size = 0
         \/ /\ r.t.rebal_cnt = sgt.rebal_cnt + 1
            /\ r.t.max_size = r.t.curr_size

\* The numerators and denominators set_rebal_param is tried with.
MaxParam == 3

ParamInputs == (0 - MaxParam)..MaxParam

\* C13: set_rebal_param(num, denom) returns Ok and stores (num, denom)
\* exactly when 0.5 <= num/denom < 1.0; otherwise it returns the error and
\* leaves the stored parameter and all other tree state unchanged; the stored
\* alpha always satisfies 0.5 <= alpha < 1.0.
C13_RebalParam ==
  /\ \A n \in ParamInputs, d \in ParamInputs :
       LET r == set_rebal_param(sgt, n, d)
           valid == d # 0 /\ d * d <= 2 * n * d /\ n * d < d * d
       IN /\ r.ok <=> valid
          /\ r.ok => /\ rebal_param(r.t) = <<n, d>>
                     /\ [r.t EXCEPT !.alpha_num = sgt.alpha_num,
                                    !.alpha_denom = sgt.alpha_denom] = sgt
          /\ ~r.ok => r.t = sgt
  /\ sgt.alpha_denom # 0
  /\ sgt.alpha_denom * sgt.alpha_denom <= 2 * sgt.alpha_num * sgt.alpha_denom
  /\ sgt.alpha_num * sgt.alpha_denom < sgt.alpha_denom * sgt.alpha_denom

\* The boundary value 1/2 is stored in a tree with entries, after a rebuild.
C13_Witness ==
  /\ rebal_param(sgt) = <<1, 2>>
  /\ sgt.curr_size >= 2
  /\ sgt.rebal_cnt > 0

\* C14: in high-assurance mode, insert called when len() = capacity()
\* returns CapacityExceeded before any mutation: contents, links, size,
\* max_size and rebal_cnt are unchanged and get of the rejected key returns
\* what it returned before.
C14_InsertAtCapacity ==
  len(sgt) = capacity(sgt) =>
    \A k \in Keys, v \in Vals :
      LET r == insert_ha(sgt, k, v)
      IN /\ r.err /\ ~r.panic
         /\ r.t = sgt
         /\ get(r.t, k) = RefVal(ref, k)

\* A full tree, after a rebuild, with a vacancy history: some keys are
\* stored and some are not.
C14_Witness ==
  /\ len(sgt) = capacity(sgt)
  /\ sgt.rebal_cnt > 0
  /\ \E k \in Keys : contains_key(sgt, k)
  /\ \E k \in Keys : ~contains_key(sgt, k)

\* C15: in high-assurance mode, append(other) fails with CapacityExceeded
\* whenever self.len() + other.len() exceeds the capacity, and then self and
\* other are both left unchanged.
C15_AppendOverCapacity ==
  \A in \in OtherInputs :
    LET other == OtherTree(in)
        r == append_ha(sgt, other)
    IN len(sgt) + len(other) > capacity(sgt) =>
         /\ r.err /\ ~r.panic
         /\ r.t = sgt
         /\ r.other = other

\* The sizes add up to more than the capacity although the distinct keys of
\* the two trees would fit.
C15_Witness ==
  \E in \in OtherInputs :
    /\ len(sgt) + len(OtherTree(in)) > capacity(sgt)
    /\ Cardinality(RefDom(ref) \cup RefDom(OtherRef(in))) <= capacity(sgt)
    /\ len(sgt) < capacity(sgt)

\* C16: after append(other) returns (high-assurance off), other is empty
\* (len 0, is_empty) and self maps each key to other's former value if other
\* contained it, else to self's former value; self.len() is the number of
\* distinct keys across both trees; also when self or other was empty.
C16_Append ==
  \A in \in OtherInputs :
    LET other == OtherTree(in)
        oref == OtherRef(in)
        r == append(sgt, other)
    IN /\ \A k \in BulkKeys : get(other, k) = RefVal(oref, k)
       /\ ~r.panic
       /\ len(r.other) = 0
       /\ is_empty(r.other)
       /\ OccupiedIdxs(r.other.arena) = {}
       /\ \A k \in BulkKeys :
            get(r.t, k) = IF oref[k] # Absent THEN ValRet(oref[k]) ELSE get(sgt, k)
       /\ len(r.t) = Cardinality(RefDom(ref) \cup RefDom(oref))

\* Self holds two entries, one of them under a key that other holds with
\* another value, and other has a vacant slot.
C16_Witness ==
  \E in \in OtherInputs :
    /\ in[3]
    /\ len(OtherTree(in)) = 1
    /\ len(sgt) = 2
    /\ ref[in[2]] \notin {Absent, OtherVal}

\* The keys of an in-order walk ascend and are the keys the arena holds.
BstOrdered(t) ==
  /\ StrictlyAscending(IterKeys(t))
  /\ SeqSet(IterKeys(t)) = StoredKeys(t)
  /\ Len(IterKeys(t)) = t.curr_size

\* The cached min and max indexes address the leftmost and rightmost nodes.
MinMaxCached(t) ==
  t.curr_size > 0 =>
    /\ Occupied(t.arena, t.min_idx)
    /\ Occupied(t.arena, t.max_idx)
    /\ t.min_idx = LeftMost(t, t.root_idx)
    /\ t.max_idx = RightMost(t, t.root_idx)

\* The keys split_off is called with: every key and one above them all.
SplitKeys == BulkKeys \cup {MaxBulkKey + 1}

\* C17: split_off(k) returns a tree with exactly the entries of key >= k and
\* leaves in self exactly those of key < k, values unchanged; the lengths sum
\* to the original length; both trees are BST-ordered with accurate min/max
\* caches.
C17_SplitOff ==
  \A k \in SplitKeys :
    LET r == split_off(sgt, k)
    IN /\ ~r.panic
       /\ \A j \in BulkKeys :
            /\ get(r.out, j) = IF j >= k THEN get(sgt, j) ELSE NoRet
            /\ get(r.t, j) = IF j < k THEN get(sgt, j) ELSE NoRet
       /\ len(r.t) + len(r.out) = len(sgt)
       /\ len(r.out) = Cardinality({j \in RefDom(ref) : j >= k})
       /\ BstOrdered(r.t) /\ BstOrdered(r.out)
       /\ MinMaxCached(r.t) /\ MinMaxCached(r.out)

\* After a rebuild the tree holds the split key, a smaller and a larger one.
C17_Witness ==
  /\ sgt.rebal_cnt > 0
  /\ \E k \in BulkKeys :
       /\ contains_key(sgt, k)
       /\ \E j \in BulkKeys : j < k /\ contains_key(sgt, j)
       /\ \E j \in BulkKeys : j > k /\ contains_key(sgt, j)

\* C18: retain(pred) leaves exactly the entries pred holds of, in ascending
\* key order when iterated, and removes every other entry; the arena indexes
\* collected before the removals address the intended entries at each of the
\* removals, so that none panics and the entries taken out are exactly those
\* pred does not hold of.
C18_Retain ==
  \A f \in SUBSET BulkKeys :
    LET r == retain(sgt, f)
    IN /\ ~r.panic
       /\ \A j \in BulkKeys :
            /\ get(r.t, j) = IF j \in f THEN get(sgt, j) ELSE NoRet
            /\ get(r.out, j) = IF j \in f THEN NoRet ELSE get(sgt, j)
       /\ StrictlyAscending(IterKeys(r.t))
       /\ SeqSet(IterKeys(r.t)) = RefDom(ref) \cap f
       /\ len(r.t) = Cardinality(RefDom(ref) \cap f)

\* Three entries in an arena whose slots are not in key order, so that the
\* sort moves them before the indexes are collected.
C18_Witness ==
  /\ sgt.curr_size = 3
  /\ \E i \in OccupiedIdxs(sgt.arena), j \in OccupiedIdxs(sgt.arena) :
       i < j /\ NodeAt(sgt, i).key > NodeAt(sgt, j).key

\* C19: after clear() called from any reachable state, a tree already
\* emptied by removals included, all structural state is reset (root none,
\* size 0, max_size 0, no occupied arena slot) and rebal_cnt equals its value
\* before the call.
C19_ClearResets ==
  LET t == clear(sgt)
  IN /\ t.root_idx = None
     /\ t.curr_size = 0
     /\ t.max_size = 0
     /\ OccupiedIdxs(t.arena) = {}
     /\ t.rebal_cnt = sgt.rebal_cnt

\* C20: index-by-key is the only public operation that can abort: from every
\* reachable state insert, remove, remove_entry, pop_first, pop_last,
\* first_key_value, last_key_value, get, append, retain, split_off and clear
\* return normally, never reading a vacant or out-of-range arena slot and
\* never failing an internal assertion.
C20_NoAbort ==
  /\ ~aborted
  /\ ~first_key_value(sgt).panic
  /\ ~last_key_value(sgt).panic

\* C21: rebal_cnt is monotone: no public operation (insert, remove,
\* pop_first, pop_last, append, retain, split_off, clear) makes the tree's
\* rebal_cnt smaller than it was before the call.
C21_RebalCntMonotone ==
  [][sgt'.rebal_cnt >= sgt.rebal_cnt]_vars

\* The child indexes of the occupied slot idx.
ChildIdxs(t, idx) == {NodeAt(t, idx).left, NodeAt(t, idx).right} \ {None}

\* The slots reached from the set S of slots in at most n steps down child
\* links; vacant and out-of-range slots have no children.
RECURSIVE Descend(_, _, _)
Descend(t, S, n) ==
  LET T == S \cup UNION {ChildIdxs(t, i) : i \in {j \in S : Occupied(t.arena, j)}}
  IN IF n = 0 \/ T = S THEN S ELSE Descend(t, T, n - 1)

SubtreeIdxs(t, idx) ==
  IF idx = None THEN {} ELSE Descend(t, {idx}, ArenaLen(t.arena))

KeyOrdered(t) ==
  /\ \A x \in OccupiedIdxs(t.arena) :
       /\ \A i \in SubtreeIdxs(t, NodeAt(t, x).left) :
            Occupied(t.arena, i) /\ NodeAt(t, i).key < NodeAt(t, x).key
       /\ \A i \in SubtreeIdxs(t, NodeAt(t, x).right) :
            Occupied(t.arena, i) /\ NodeAt(t, i).key > NodeAt(t, x).key
  /\ \A x \in OccupiedIdxs(t.arena), y \in OccupiedIdxs(t.arena) :
       x # y => NodeAt(t, x).key # NodeAt(t, y).key

\* C22: at every public API boundary, for every occupied node x all keys in
\* x's left subtree are smaller than x.key, all keys in x's right subtree are
\* larger, and no two occupied nodes hold equal keys; also after an arena
\* sort.
C22_KeyOrdering ==
  /\ KeyOrdered(sgt)
  /\ KeyOrdered(sort_arena(sgt))

\* Three or more nodes after a rebuild and a removal, the root with two
\* children, in an arena that a sort would rearrange.
C22_Witness ==
  /\ sgt.curr_size >= 3
  /\ sgt.rebal_cnt > 0
  /\ sgt.arena.free # {}
  /\ Cardinality(ChildIdxs(sgt, sgt.root_idx)) = 2
  /\ sort_arena(sgt) # sgt

\* The parents of slot idx: the occupied slots with a child link to it.
ParentIdxs(t, idx) ==
  {p \in OccupiedIdxs(t.arena) : idx \in ChildIdxs(t, p)}

\* C23: root is none exactly when size = 0 (is_empty() iff len() = 0);
\* otherwise every occupied slot is reachable from root by exactly one path
\* and no child index addresses a vacant slot, forms a cycle or is shared by
\* two parents.
C23_Connectivity ==
  /\ (sgt.root_idx = None) <=> (sgt.curr_size = 0)
  /\ is_empty(sgt) <=> (len(sgt) = 0)
  /\ sgt.root_idx # None =>
       /\ Occupied(sgt.arena, sgt.root_idx)
       /\ ParentIdxs(sgt, sgt.root_idx) = {}
       /\ SubtreeIdxs(sgt, sgt.root_idx) = OccupiedIdxs(sgt.arena)
       /\ \A x \in OccupiedIdxs(sgt.arena) :
            /\ \A c \in ChildIdxs(sgt, x) : Occupied(sgt.arena, c)
            /\ NodeAt(sgt, x).left # None => NodeAt(sgt, x).left # NodeAt(sgt, x).right
            /\ x # sgt.root_idx => Cardinality(ParentIdxs(sgt, x)) = 1
  /\ sgt.root_idx = None => OccupiedIdxs(sgt.arena) = {}

\* Four nodes, the root with two children and its right child with a left
\* child: the removal of the root takes its successor from deeper down.
C23_Witness ==
  /\ sgt.curr_size = 4
  /\ Cardinality(ChildIdxs(sgt, sgt.root_idx)) = 2
  /\ NodeAt(sgt, NodeAt(sgt, sgt.root_idx).right).left # None
  /\ sgt.arena.free = {}

\* C24: inserting a key that is already present makes no structural change
\* and triggers no rebalance: every child link, root, min, max, size and
\* max_size is unchanged and rebal_cnt is the same after the call as before,
\* wherever the key sits in the tree.
C24_InsertPresent ==
  \A k \in Keys, v \in Vals :
    contains_key(sgt, k) =>
      LET r == insert(sgt, k, v)
          idx == priv_get(sgt, k).node_idx
      IN /\ ~r.panic
         /\ r.t = [sgt EXCEPT !.arena = ArenaSetKeyVal(@, idx, k, v)]

\* C25: inserting into an empty tree, freshly constructed or emptied by
\* earlier removals, sets root = min = max = the new node's index and
\* size = max_size = 1, and returns none.
C25_InsertEmpty ==
  sgt.curr_size = 0 =>
    \A k \in Keys, v \in Vals :
      LET r == insert(sgt, k, v)
      IN /\ ~r.panic
         /\ r.ret = NoRet
         /\ Occupied(r.t.arena, r.t.root_idx)
         /\ NodeAt(r.t, r.t.root_idx).key = k
         /\ r.t.min_idx = r.t.root_idx
         /\ r.t.max_idx = r.t.root_idx
         /\ r.t.curr_size = 1
         /\ r.t.max_size = 1

SubSize(t, idx) == Cardinality(SubtreeIdxs(t, idx))

\* The insertion path of key in t, the node holding key at its end: the
\* nodes visited from the root down.
RECURSIVE PathTo(_, _, _)
PathTo(t, key, idx) ==
  IF idx = None
    THEN <<>>
    ELSE IF key = NodeAt(t, idx).key
      THEN <<idx>>
      ELSE <<idx>> \o PathTo(t, key, IF key < NodeAt(t, idx).key
                                       THEN NodeAt(t, idx).left
                                       ELSE NodeAt(t, idx).right)

\* s is the deepest alpha-weight-unbalanced node above the end of path p.
DeepestUnbalanced(t, p, s) ==
  \E j \in 1..(Len(p) - 1) :
    /\ p[j] = s
    /\ t.alpha_denom * SubSize(t, p[j + 1]) > t.alpha_num * SubSize(t, p[j])
    /\ \A i \in (j + 1)..(Len(p) - 1) :
         t.alpha_denom * SubSize(t, p[i + 1]) <= t.alpha_num * SubSize(t, p[i])

\* The insert of k triggers a rebuild.
InsertRebuilds(t, k, v) ==
  LET r == priv_insert(t, k, v)
  IN /\ ~r.panic
     /\ Len(r.path) > alpha_balance_depth(r.t, r.t.max_size)
     /\ find_scapegoat(r.t, r.path) # None

\* C26: whenever an insert triggers a rebuild, the node whose subtree is
\* rebuilt is the deepest node on the insertion path that is
\* alpha-weight-unbalanced.
C26_ScapegoatChoice ==
  \A k \in Keys, v \in Vals :
    InsertRebuilds(sgt, k, v) =>
      LET r == priv_insert(sgt, k, v)
          s == find_scapegoat(r.t, r.path)
      IN /\ insert(sgt, k, v).t = rebuild(r.t, s)
         /\ DeepestUnbalanced(r.t, PathTo(r.t, k, r.t.root_idx), s)

\* The same for the insert of a key that is not in the tree.
C26_ScapegoatChoiceNew ==
  \A k \in Keys, v \in Vals :
    (InsertRebuilds(sgt, k, v) /\ ~contains_key(sgt, k)) =>
      LET r == priv_insert(sgt, k, v)
          s == find_scapegoat(r.t, r.path)
      IN /\ insert(sgt, k, v).t = rebuild(r.t, s)
         /\ DeepestUnbalanced(r.t, PathTo(r.t, k, r.t.root_idx), s)

WithinDepthBound(t) == MaxDepth(t) <= alpha_balance_depth(t, t.max_size)

RankIdx(t, S, r) ==
  CHOOSE i \in S :
    Cardinality({j \in S : NodeAt(t, j).key < NodeAt(t, i).key}) = r

\* The subtree at idx holds exactly the ranks lo..hi of S, and every node of
\* it is the midpoint of its range.
RECURSIVE MidpointShaped(_, _, _, _, _)
MidpointShaped(t, S, lo, hi, idx) ==
  IF lo > hi
    THEN idx = None
    ELSE LET mid == (lo + hi) \div 2
         IN /\ idx \in S
            /\ idx = RankIdx(t, S, mid)
            /\ MidpointShaped(t, S, lo, mid - 1, NodeAt(t, idx).left)
            /\ MidpointShaped(t, S, mid + 1, hi, NodeAt(t, idx).right)

\* What the link of t that pointed at idx (the root, or a child link of the
\* parent of idx) points at in t2.
LinkTarget(t, t2, idx) ==
  IF idx = t.root_idx
    THEN t2.root_idx
    ELSE LET p == CHOOSE q \in ParentIdxs(t, idx) : TRUE
         IN IF NodeAt(t, p).left = idx THEN NodeAt(t2, p).left ELSE NodeAt(t2, p).right

Log2Floor(k) == LogFloor(1, 2, k, 0, 1, 1)

SizeDiff(t, i) ==
  LET l == SubSize(t, NodeAt(t, i).left)
      r == SubSize(t, NodeAt(t, i).right)
  IN IF l > r THEN l - r ELSE r - l

\* C28: rebuild of a subtree with k nodes produces a subtree over exactly the
\* same k arena indices that is perfectly height-balanced: each node is the
\* midpoint of its sorted range, the sizes of any node's two subtrees differ
\* by at most one, and the subtree's height is floor(log2(k)); the parent's
\* child link (or the root) that pointed at the old subtree root points at
\* the new one.
C28_RebuildBalanced ==
  \A idx \in ReachIdxs(sgt) :
    LET t2 == rebuild(sgt, idx)
        S == SubtreeIdxs(sgt, idx)
        k == Cardinality(S)
        new_root == LinkTarget(sgt, t2, idx)
    IN /\ SubtreeIdxs(t2, new_root) = S
       /\ MidpointShaped(t2, S, 0, k - 1, new_root)
       /\ \A i \in S : SizeDiff(t2, i) <= 1
       /\ Height(t2, new_root) = Log2Floor(k)

\* A three-node chain hanging below the root, whose rebuild changes the
\* subtree root and so the parent's child link.
C28_Witness ==
  \E idx \in ReachIdxs(sgt) :
    /\ idx # sgt.root_idx
    /\ SubSize(sgt, idx) = 3
    /\ Height(sgt, idx) = 2
    /\ LinkTarget(sgt, rebuild(sgt, idx), idx) # idx

\* The links of the slots of t, in slot order.
Links(t) ==
  [i \in OccupiedIdxs(t.arena) |-> <<NodeAt(t, i).left, NodeAt(t, i).right>>]

\* C29: when remove_entry removes a key and leaves max_size > 2 * size with
\* a non-empty tree, the whole tree is rebuilt from the root in that call:
\* on return max_size = size, rebal_cnt has grown by exactly one and the
\* tree has height floor(log2(size)); when max_size <= 2 * size after the
\* removal, nothing is rebuilt and max_size is unchanged.
C29_DeletionRebuild ==
  \A k \in Keys :
    contains_key(sgt, k) =>
      LET t == remove_entry(sgt, k).t
          removed == priv_remove_by_key(sgt, k).t
          size == sgt.curr_size - 1
      IN /\ t.curr_size = size
         /\ (sgt.max_size > 2 * size /\ size > 0) =>
              /\ t.max_size = size
              /\ t.rebal_cnt = sgt.rebal_cnt + 1
              /\ MaxDepth(t) = Log2Floor(size)
              /\ MidpointShaped(t, OccupiedIdxs(t.arena), 0, size - 1, t.root_idx)
         /\ sgt.max_size <= 2 * size =>
              /\ t.max_size = sgt.max_size
              /\ t.rebal_cnt = sgt.rebal_cnt
              /\ Links(t) = Links(removed)
              /\ t.root_idx = removed.root_idx

\* A removal that crosses the threshold and whose rebuild moves the root:
\* the two entries left hang as root and left child, and on return the
\* smaller key is the root.
C29_Witness ==
  \E k \in Keys :
    /\ contains_key(sgt, k)
    /\ sgt.curr_size = 3
    /\ sgt.max_size > 2 * (sgt.curr_size - 1)
    /\ LET removed == priv_remove_by_key(sgt, k).t
       IN /\ NodeAt(removed, removed.root_idx).left # None
          /\ remove_entry(sgt, k).t.root_idx # removed.root_idx

\* The slot of the entry with the given key.
IdxOf(t, key) == CHOOSE i \in OccupiedIdxs(t.arena) : NodeAt(t, i).key = key

HasTwoChildren(t, idx) == NodeAt(t, idx).left # None /\ NodeAt(t, idx).right # None

\* The in-order successor of a node with two children: the slot with the
\* least key of its right subtree.
Successor(t, idx) ==
  LET S == SubtreeIdxs(t, NodeAt(t, idx).right)
  IN CHOOSE m \in S : \A j \in S : NodeAt(t, m).key <= NodeAt(t, j).key

\* The entries of t by slot, links left aside.
Entries(t) ==
  [i \in OccupiedIdxs(t.arena) |-> <<NodeAt(t, i).key, NodeAt(t, i).val>>]

\* C30: removing a key whose node has two children promotes the in-order
\* successor m into the removed node's structural position, with m.left the
\* target's left child and m.right the target's right child (or, when m was
\* that child, what m's right child was; when m lay deeper its parent takes
\* m's right child as left child), vacates only the removed node's slot and
\* leaves every other entry in its slot with its key and value.
C30_TwoChildRemoval ==
  \A k \in RemKeys :
    (contains_key(sgt, k) /\ HasTwoChildren(sgt, IdxOf(sgt, k))) =>
      LET x == IdxOf(sgt, k)
          m == Successor(sgt, x)
          mp == CHOOSE q \in ParentIdxs(sgt, m) : TRUE
          t == priv_remove_by_key(sgt, k).t
          u == remove_entry(sgt, k).t
      IN /\ LinkTarget(sgt, t, x) = m
         /\ NodeAt(t, m).left = NodeAt(sgt, x).left
         /\ NodeAt(t, m).right =
              (IF m = NodeAt(sgt, x).right
                 THEN NodeAt(sgt, m).right
                 ELSE NodeAt(sgt, x).right)
         /\ m # NodeAt(sgt, x).right =>
              /\ NodeAt(t, mp).left = NodeAt(sgt, m).right
              /\ NodeAt(t, mp).right = NodeAt(sgt, mp).right
         /\ \A i \in OccupiedIdxs(t.arena) \ ({m, mp} \cup ParentIdxs(sgt, x)) :
              Links(t)[i] = Links(sgt)[i]
         /\ OccupiedIdxs(t.arena) = OccupiedIdxs(sgt.arena) \ {x}
         /\ \A i \in OccupiedIdxs(t.arena) : Entries(t)[i] = Entries(sgt)[i]
         /\ Entries(u) = Entries(t)
         /\ priv_remove_by_key(sgt, k).ret = SomeRet(k, NodeAt(sgt, x).val)

\* A node with two children whose successor lies below its right child and
\* has a right child of its own.
C30_Witness ==
  \E k \in RemKeys :
    /\ contains_key(sgt, k)
    /\ HasTwoChildren(sgt, IdxOf(sgt, k))
    /\ LET x == IdxOf(sgt, k)
           m == Successor(sgt, x)
       IN /\ m # NodeAt(sgt, x).right
          /\ NodeAt(sgt, m).right # None

\* C31: with subtree-size caching, after every insert (of a new or of a
\* present key), every removal and every rebuild, the cached subtree_size of
\* each occupied node equals 1 + size(left) + size(right).
C31_SubtreeSizeCache ==
  \A i \in OccupiedIdxs(sgt.arena) :
    sgt.subtree_size[i] =
      1 + SubSize(sgt, NodeAt(sgt, i).left) + SubSize(sgt, NodeAt(sgt, i).right)

\* C32: at every public API boundary, after any sequence of operations,
\* size <= max_size; the same holds of the tree split_off hands back.
C32_SizeAtMostMaxSize ==
  /\ sgt.curr_size <= sgt.max_size
  /\ \A k \in BulkKeys :
       LET r == split_off(sgt, k)
       IN ~r.panic => r.out.curr_size <= r.out.max_size

\* Entries remain and max_size is ahead of size: removals have happened
\* since max_size and size last agreed.
C32_Witness ==
  /\ sgt.curr_size > 0
  /\ sgt.curr_size < sgt.max_size

\* max_size follows the high-water mark of size over one step: it is the
\* larger of the mark so far and the new size, unless the step rebuilt the
\* whole tree or reset it, after which the mark is the new size.
HighWaterStep(t, u) ==
  \/ u.max_size = (IF u.curr_size > t.max_size THEN u.curr_size ELSE t.max_size)
  \/ u.rebal_cnt # t.rebal_cnt /\ u.max_size = u.curr_size
  \/ u.curr_size = 0 /\ u.max_size = 0

\* C33: at every public API boundary max_size equals the largest value size
\* has taken since the most recent whole-tree rebuild, or since construction
\* or clear; insert-then-remove cycles of one key do not make it grow.
\* max_size starts at the mark (0), so it stays the mark exactly as long as
\* every step follows it.
C33_HighWaterMark == [][HighWaterStep(sgt, sgt')]_vars

\* C34: with alpha = 2/3, after n strictly ascending keys have been inserted
\* into an empty tree, the depth is at most floor(log_{1.5}(n)) + 1, and from
\* n = 5 on at least one rebuild has happened (rebal_cnt >= 1).
C34_AscendingInserts ==
  LET n == sgt.curr_size
  IN /\ n >= 5 => sgt.rebal_cnt >= 1
     /\ n >= 1 => MaxDepth(sgt) <= LogFloor(2, 3, n, 0, 1, 1) + 1

\* The fifth ascending key has just forced the first rebuild, and a longer
\* sequence has rebuilt more than once.
C34_Witness ==
  /\ sgt.curr_size = MaxAscKey
  /\ sgt.rebal_cnt >= 2
  /\ sgt.alpha_num = 2 /\ sgt.alpha_denom = 3

\* C35: pop_first and pop_last called on an empty tree return none and leave
\* the tree as it was, whatever emptied it (stale min and max indices and
\* vacated arena slots included).
C35_PopOnEmpty ==
  is_empty(sgt) =>
    /\ pop_first(sgt) = Res(sgt, NoRet)
    /\ pop_last(sgt) = Res(sgt, NoRet)

\* C36: the rebalance parameter is changed only by a successful
\* set_rebal_param: insert, remove, remove_entry, pop_first, pop_last,
\* retain, split_off, append (on self) and clear all leave the value
\* rebal_param() returns as it was.
C36_RebalParamFrame ==
  LET p == rebal_param(sgt)
  IN /\ \A k \in BulkKeys, v \in Vals : rebal_param(insert(sgt, k, v).t) = p
     /\ \A k \in BulkKeys :
          /\ rebal_param(remove(sgt, k).t) = p
          /\ rebal_param(remove_entry(sgt, k).t) = p
          /\ rebal_param(split_off(sgt, k).t) = p
     /\ rebal_param(pop_first(sgt).t) = p
     /\ rebal_param(pop_last(sgt).t) = p
     /\ \A f \in SUBSET BulkKeys : rebal_param(retain(sgt, f).t) = p
     /\ \A in \in OtherInputs : rebal_param(append(sgt, OtherTree(in)).t) = p
     /\ rebal_param(clear(sgt)) = p

\* C37: after any removal that leaves the tree empty (remove, remove_entry,
\* pop_first, pop_last), both cached indices min and max are 0.  A tree is
\* empty at construction, after clear (both leave the indices 0) or after
\* such a removal.
C37_EmptyMinMax ==
  is_empty(sgt) => (sgt.min_idx = 0 /\ sgt.max_idx = 0)

====
